---- MODULE Spec2Model ----
(***************************************************************************)
(* pytest-console-scripts: the dual-mode script runner.                    *)
(*                                                                         *)
(* One pytest session for one test function: pytest_generate_tests         *)
(* resolves the launch mode and parametrizes the test, the script_runner   *)
(* fixture builds a ScriptRunner per parameter, and the test calls         *)
(* ScriptRunner.run once.  An in-process run is split where the code hands *)
(* control to the script under test: the prologue of run_inprocess up to   *)
(* the call of script(), the script's own steps on the process state, and  *)
(* the epilogue from the return of script() to the return of the run.      *)
(***************************************************************************)
EXTENDS Integers, Sequences, FiniteSets, TLC

(* ---------------- bounds of the model ---------------- *)

\* how many state-changing steps the script under test takes in one run
MaxScriptSteps == 2

(* ---------------- Python values ---------------- *)

\* Python's None
PyNone == [t |-> "none"]

\* a Python int
PyInt(i) == [t |-> "int", i |-> i]

\* a Python str
PyStr(s) == [t |-> "str", s |-> s]

IsInt(v) == v.t = "int"

IsStr(v) == v.t = "str"

\* bool(v): None, 0 and '' are false
Truthy(v) ==
  ~ (v = PyNone \/ (IsInt(v) /\ v.i = 0) \/ (IsStr(v) /\ v.s = ""))

\* the operand Python's "a or b" yields
PyOr(a, b) == IF Truthy(a) THEN a ELSE b

(* ---------------- the file system the locator looks at ---------------- *)

\* the directories that exist
Dirs == {"bin", "work", "home"}

\* directories that can be passed as cwd= ; "nodir" does not exist
CwdArgs == {"work", "nodir"}

\* the files that exist; mode is st_mode's permission bits in decimal:
\* 420 = 0o644, 421 = 0o645, 484 = 0o744, 493 = 0o755
FS ==
  { [dir |-> "bin",  name |-> "tool", mode |-> 493],
    [dir |-> "bin",  name |-> "ep",   mode |-> 493],
    [dir |-> "work", name |-> "tool", mode |-> 420],
    [dir |-> "work", name |-> "a.py", mode |-> 420],
    [dir |-> "work", name |-> "b.py", mode |-> 484],
    [dir |-> "work", name |-> "c.py", mode |-> 421],
    [dir |-> "home", name |-> "a.py", mode |-> 420] }

Commands == {"tool", "ep", "a.py", "b.py", "c.py", "missing"}

\* names registered in the console_scripts entry point group
EntryPoints == {"ep"}

\* a file name's Path.suffix
Suffix(name) ==
  IF name \in {"a.py", "b.py", "c.py"} THEN ".py" ELSE ""

\* no path (Python's None where a path is expected)
NoPath == << >>

exists(path) ==
  path # NoPath /\ \E f \in FS : f.dir = path[1] /\ f.name = path[2]

st_mode(path) ==
  (CHOOSE f \in FS : f.dir = path[1] /\ f.name = path[2]).mode

\* the owner's execute bit, S_IXUSR = 0o100
OwnerExec(mode) == (mode \div 64) % 2 = 1

\* mode & os.X_OK with os.X_OK = 1: the lowest bit of st_mode
ModeAndXOK(mode) == mode % 2


(* ---------------- state ---------------- *)

VARIABLES
  pc,          \* where the session is: collect, collected, collect_error,
               \* idle (runner built), running (inside script()), returned, raised
  metafunc,    \* the inputs of pytest_generate_tests, PyNone once collection is over
  generated,   \* the parameters pytest_generate_tests gave the test
  params,      \* the parameters still to be run
  executed,    \* the launch modes the test has been set up with, in order
  runner,      \* the ScriptRunner: [launch_mode, print_result]
  cwd,         \* os.getcwd()
  environ,     \* the mapping object os.environ is bound to
  envc,        \* the contents of each mapping object
  logger,      \* the root logger: [level, handlers, disabled]
  sys,         \* sys.stdin, sys.stdout, sys.stderr (stream objects), sys.argv
  streams,     \* the text written to each stream object
  call,        \* the arguments of the current run(): [command, arguments, options]
  script,      \* the thunk _load_script returned
  located,     \* the path _locate_script returned in this run
  frame,       \* locals of run_inprocess: saved_dir, logger_conf, old_env, orig
  cmd_args,    \* the argument vector run_subprocess gave to subprocess.run
  steps,       \* steps the script has taken in this run
  outcome,     \* how the script ended
  result,      \* the RunResult returned
  exc,         \* the exception that left run()
  pre,         \* the process state just before the call (history)
  snap         \* [taken, restores]: snapshot taken, times restored (history)

vars ==
  << pc, metafunc, generated, params, executed, runner, cwd, environ,
     envc, logger, sys, streams, call, script, located, frame, cmd_args, steps,
     outcome, result, exc, pre, snap >>

(* ---------------- launch mode resolution ---------------- *)

\* what a marker, the command line or the ini file can name
ModeNames == {"inprocess", "subprocess", "both", "bogus", ""}

\* a script_launch_mode marker's first argument; [t |-> "nomarker"]: no marker
NoMarker == [t |-> "nomarker"]

MarkerArgs == {NoMarker, PyNone} \cup {PyStr(m) : m \in ModeNames}

\* --script-launch-mode: default None
OptionArgs == {PyNone} \cup {PyStr(m) : m \in ModeNames}

\* getini('script_launch_mode'): '' when the ini file does not set it
IniArgs == {PyStr(m) : m \in ModeNames}

\* str(v)
PyStrOf(v) == IF v = PyNone THEN PyStr("None") ELSE v

_get_mark_mode(marker) ==
  IF marker # NoMarker THEN PyStrOf(marker) ELSE PyNone

\* mutant: the command line option is asked before the marker
ResolveMode_OptionFirst(mark_mode, option_mode, config_mode) ==
  PyOr(PyOr(PyOr(option_mode, mark_mode), config_mode), PyStr("inprocess"))

\* mark_mode or option_mode or config_mode or 'inprocess'
ResolveMode(mark_mode, option_mode, config_mode) ==
  PyOr(PyOr(PyOr(mark_mode, option_mode), config_mode), PyStr("inprocess"))

\* the parameter list given to metafunc.parametrize; << "ValueError" >> stands
\* for the raise
Parametrize(mode) ==
  IF mode \in {PyStr("inprocess"), PyStr("subprocess")} THEN << mode.s >>
  ELSE IF mode = PyStr("both") THEN << "inprocess", "subprocess" >>
  ELSE << "ValueError" >>

pytest_generate_tests(uses_fixture, marker, option_mode, config_mode) ==
  /\ pc = "collect"
  /\ metafunc' = [uses_fixture |-> uses_fixture, marker |-> marker,
                  option |-> option_mode, ini |-> config_mode]
  /\ IF ~ uses_fixture
       THEN /\ generated' = << >>
            /\ pc' = "collected"
       ELSE LET mode == ResolveMode(_get_mark_mode(marker), option_mode,
                                    config_mode)
                ps == Parametrize(mode)
            IN  IF ps = << "ValueError" >>
                  THEN /\ generated' = << >>
                       /\ pc' = "collect_error"
                  ELSE /\ generated' = ps
                       /\ pc' = "collected"
  /\ params' = generated'
  /\ UNCHANGED << executed, runner, cwd, environ, envc, logger, sys,
                  streams, call, script, located, frame, cmd_args, steps, outcome,
                  result, exc, pre, snap >>

\* the script_launch_mode and script_runner fixtures for the next parameter
script_runner(hide_run_results) ==
  /\ pc = "collected"
  /\ params # << >>
  /\ runner' = [launch_mode |-> Head(params),
                print_result |-> ~ hide_run_results]
  /\ params' = Tail(params)
  /\ executed' = Append(executed, Head(params))
  /\ metafunc' = PyNone
  /\ pc' = "idle"
  /\ UNCHANGED << generated, cwd, environ, envc, logger, sys, streams,
                  call, script, located, frame, cmd_args, steps, outcome, result, exc,
                  pre, snap >>

(* ---------------- run(): its options ---------------- *)

\* the search path used when no PATH is known at all (os.defpath)
DefPath == << "bin" >>

\* os.environ of the test process before any run
ProcessEnv == [hasPATH |-> TRUE, PATH |-> << "bin" >>, X |-> 0]

\* the mappings a caller passes as env=
EnvArgs ==
  { [hasPATH |-> TRUE,  PATH |-> << "work" >>, X |-> 0],
    [hasPATH |-> FALSE, PATH |-> << >>,        X |-> 0] }

\* **options of run(); a has* field says whether the keyword was passed
OptionSets ==
  { o \in [hasEnv : BOOLEAN, env : EnvArgs \cup {ProcessEnv},
           hasCwd : BOOLEAN, cwd : CwdArgs \cup {""},
           hasStdin : BOOLEAN,
           print_result : {"unset"}] :
      /\ (o.hasEnv <=> o.env \in EnvArgs)
      /\ (o.hasCwd <=> o.cwd \in CwdArgs) }

\* *arguments of run()
ArgumentLists == { << "-v" >> }

\* options.setdefault('print_result', self.print_result), as a boolean
PrintResult(o) ==
  IF o.print_result = "unset" THEN runner.print_result
  ELSE o.print_result = "yes"

\* stream.write(text); a stream object nobody reads keeps nothing
Write(st, id, text) ==
  IF id \in DOMAIN st THEN [st EXCEPT ![id] = @ \o text] ELSE st

\* run(): the announcement printed before dispatching
Announce(command, arguments, o) ==
  IF PrintResult(o)
    THEN Write(streams, sys.stdout,
               << "# Running console script:", command >> \o arguments)
    ELSE streams

(* ---------------- the locator and the loader ---------------- *)

\* shutil.which(command, path=...): the first directory of the search path
\* holding an executable file of that name, or None
which(command, path) ==
  LET hits == { i \in 1..Len(path) :
                  /\ exists(<< path[i], command >>)
                  /\ OwnerExec(st_mode(<< path[i], command >>)) }
  IN  IF hits = {} THEN NoPath
      ELSE << path[CHOOSE i \in hits : \A j \in hits : i <= j], command >>

\* options.get('env', {}).get('PATH', None); with None shutil.which falls
\* back to os.environ's PATH, and to os.defpath without one
SearchPath(o) ==
  IF o.hasEnv /\ o.env.hasPATH THEN o.env.PATH
  ELSE IF envc[environ].hasPATH THEN envc[environ].PATH
  ELSE DefPath

\* mutant: the cwd option is not looked at
LocateCwd_IgnoresOption(o) == cwd

\* options.get('cwd', os.getcwd())
LocateCwd(o) == IF o.hasCwd THEN o.cwd ELSE cwd

\* the path _locate_script returns, NoPath for raise FileNotFoundError
_locate_script(command, o) ==
  LET script_path == which(command, SearchPath(o))
  IN  IF script_path # NoPath THEN script_path
      ELSE IF exists(<< LocateCwd(o), command >>)
             THEN << LocateCwd(o), command >>
      ELSE NoPath

\* the thunk _load_script returns: console_script for a registered entry
\* point, else exec_script of the located file, "" for the locator's raise
_load_script(command, o) ==
  IF command \in EntryPoints THEN "console_script"
  ELSE IF _locate_script(command, o) # NoPath THEN "exec_script"
  ELSE ""

_is_nonexecutable_python_file(path) ==
  IF ModeAndXOK(st_mode(path)) # 0 THEN FALSE
  ELSE Suffix(path[2]) = ".py"

(* ---------------- the root logger ---------------- *)

\* logging.NOTSET
NOTSET == 0


\* the logger after _save_and_reset_logger; the config it returns is the
\* logger before
_save_and_reset_logger ==
  [level |-> NOTSET, handlers |-> {}, disabled |-> FALSE]

\* mutant: the restore forgets the disabled flag
_restore_logger_keeps_disabled(conf) ==
  [level |-> conf.level, handlers |-> conf.handlers,
   disabled |-> logger.disabled]

\* the logger after _restore_logger(config)
_restore_logger(conf) ==
  [level |-> conf.level, handlers |-> conf.handlers,
   disabled |-> conf.disabled]

(* ---------------- RunResult ---------------- *)

\* returncode == 0
IsZero(returncode) == IsInt(returncode) /\ returncode.i = 0

RunResult(returncode, stdout, stderr) ==
  [returncode |-> returncode, stdout |-> stdout, stderr |-> stderr,
   success |-> IsZero(returncode)]

\* RunResult.print, called by __init__ when print_result is set: the three
\* headers, written to the current sys.stdout
PrintReport(st, out, print_result) ==
  IF print_result
    THEN Write(st, out, << "# Script return code:", "# Script stdout:",
                           "# Script stderr:" >>)
    ELSE st

(* ---------------- the script under test ---------------- *)

\* what an entry point's callable can return
ReturnValues == { PyNone, PyInt(0), PyInt(2), PyStr("s") }

\* the code of a SystemExit the script raises (sys.exit(code))
ExitCodes ==
  { PyNone, PyStr("msg"), PyInt(0), PyInt(3), PyInt(256), PyInt(-1) }

\* how a call of the thunk can end: return of a value (console_script passes
\* on what the entry point returns, exec_script returns 0), SystemExit,
\* an Exception, or a BaseException that is neither (KeyboardInterrupt)
Outcomes(thunk) ==
  { [kind |-> "return", val |-> v] :
      v \in IF thunk = "console_script" THEN ReturnValues ELSE { PyInt(0) } }
  \cup { [kind |-> "exit", val |-> c] : c \in ExitCodes }
  \cup { [kind |-> "exception", val |-> PyNone],
         [kind |-> "interrupt", val |-> PyNone] }

NoOutcome == [kind |-> "", val |-> PyNone]

\* the traceback of an error raised in the script, outermost frame first:
\* run_inprocess (where it is caught), the thunk, the script's own frame
Traceback == << "run_inprocess", script, "<script>" >>

\* traceback.print_exception(et, ev, tb): header, frames from tb on, error
print_exception(tb) ==
  << "Traceback (most recent call last):" >> \o tb \o << "Exception" >>

\* tb.tb_next
tb_next(tb) == Tail(tb)

(* ---------------- run_inprocess ---------------- *)

\* mutant: only SystemExit is caught
Caught_OnlySystemExit(o) == o.kind \in { "return", "exit" }

\* the except clauses of run_inprocess: SystemExit and Exception are caught
Caught(o) == o.kind \in { "return", "exit", "exception" }

\* mutant: a termination request without a code counts as a failure
ReturnCode_ExitNoneFails(o) ==
  IF o.kind = "return"
    THEN IF o.val = PyNone THEN PyInt(0) ELSE o.val
  ELSE IF o.kind = "exit"
    THEN IF IsStr(o.val) \/ o.val = PyNone THEN PyInt(1) ELSE o.val
  ELSE PyInt(1)

\* mutant: every termination request with a non-zero code gives 1
ReturnCode_ExitNonZeroIsOne(o) ==
  IF o.kind = "return"
    THEN IF o.val = PyNone THEN PyInt(0) ELSE o.val
  ELSE IF o.kind = "exit"
    THEN IF o.val = PyNone \/ o.val = PyInt(0) THEN PyInt(0) ELSE PyInt(1)
  ELSE PyInt(1)

\* returncode as lines 246-258 compute it
ReturnCode(o) ==
  IF o.kind = "return"
    THEN IF o.val = PyNone THEN PyInt(0) ELSE o.val
  ELSE IF o.kind = "exit"
    THEN IF IsStr(o.val) THEN PyInt(1)
         ELSE IF o.val = PyNone THEN PyInt(0)
         ELSE o.val
  ELSE PyInt(1)

\* sys.stdin, stdout, stderr, argv once the with statement of the four
\* patches is entered
EnterPatches(command, arguments, o) ==
  [stdin  |-> IF o.hasStdin THEN "user_stdin" ELSE "mock_in",
   stdout |-> "mock_out",
   stderr |-> "mock_err",
   argv   |-> << command >> \o arguments]

\* mutant: the patches are undone after the try statement only, not when an
\* exception passes through
ExitPatches_NotOnError(o) ==
  IF o.kind \in { "return", "exit", "exception" } THEN frame.orig ELSE sys

\* the same four once the with statement is left with outcome o: mock.patch
\* puts back the original on every exit, an exception passing through too
ExitPatches(o) == frame.orig

\* mutant: the traceback is printed to the stderr of before the patches
AfterTry_RealStderr(o) ==
  IF o.kind = "exit" /\ IsStr(o.val)
    THEN Write(streams, "mock_err", << o.val.s, "\n" >>)
  ELSE IF o.kind = "exception"
    THEN Write(streams, frame.orig.stderr,
               print_exception(tb_next(Traceback)))
  ELSE streams

\* what the captured stderr and the other streams hold when the try
\* statement is done
AfterTry(o) ==
  IF o.kind = "exit" /\ IsStr(o.val)
    THEN Write(streams, "mock_err", << o.val.s, "\n" >>)
  ELSE IF o.kind = "exception"
    THEN Write(streams, sys.stderr, print_exception(tb_next(Traceback)))
  ELSE streams

\* os.environ after lines 270-271
RestoreEnviron == IF call.options.hasEnv THEN frame.old_env ELSE environ

\* history of a run: whether the process-state snapshot was taken, how
\* often it was restored, what sys.stderr was bound to when script() ended
NoSnap == [taken |-> FALSE, restores |-> 0, stderr_at_end |-> ""]

NoFrame ==
  [saved_dir |-> "", logger_conf |-> _save_and_reset_logger,
   old_env |-> "", orig |-> sys]

\* run() in in-process mode up to the call of script(): lines 144-149 and
\* 223-246
run_inprocess(command, arguments, o) ==
  /\ LET thunk == _load_script(command, o)
         opts == [o EXCEPT !.print_result =
                             IF PrintResult(o) THEN "yes" ELSE "no"]
         st1 == Announce(command, arguments, o)
         environ1 == IF o.hasEnv THEN "EOPT" ELSE environ
     IN  /\ call' = [command |-> command, arguments |-> arguments,
                     options |-> opts]
         /\ pre' = [cwd |-> cwd, environ |-> environ, env |-> envc[environ],
                    logger |-> logger, sys |-> sys]
         /\ script' = thunk
         /\ located' = IF command \in EntryPoints THEN NoPath
                        ELSE _locate_script(command, o)
         /\ outcome' = NoOutcome
         /\ steps' = 0
         /\ IF thunk = ""
              THEN \* _locate_script raised: nothing has been touched yet
                   /\ pc' = "raised"
                   /\ exc' = "FileNotFoundError: Cannot find"
                   /\ streams' = st1
                   /\ snap' = NoSnap
                   /\ frame' = NoFrame
                   /\ UNCHANGED << cwd, environ, envc, logger, sys >>
              ELSE /\ logger' = _save_and_reset_logger
                   /\ snap' = [NoSnap EXCEPT !.taken = TRUE]
                   /\ environ' = environ1
                   /\ envc' = IF o.hasEnv
                                THEN [envc EXCEPT !["EOPT"] = o.env]
                                ELSE envc
                   /\ frame' = [saved_dir |-> cwd, logger_conf |-> logger,
                                old_env |-> IF o.hasEnv THEN environ ELSE "",
                                orig |-> sys]
                   /\ IF o.hasCwd /\ o.cwd \notin Dirs
                        THEN \* os.chdir raised
                             /\ pc' = "raised"
                             /\ exc' = "FileNotFoundError: chdir"
                             /\ streams' = st1
                             /\ UNCHANGED << cwd, sys >>
                        ELSE /\ cwd' = IF o.hasCwd THEN o.cwd ELSE cwd
                             /\ sys' = EnterPatches(command, arguments, o)
                             /\ streams' = [st1 EXCEPT !["mock_out"] = << >>,
                                                       !["mock_err"] = << >>]
                             /\ pc' = "running"
                             /\ exc' = ""
  /\ result' = PyNone
  /\ UNCHANGED << metafunc, generated, params, executed, runner,
                  cmd_args >>

RunInprocess ==
  /\ pc = "idle"
  /\ runner.launch_mode = "inprocess"
  /\ \E c \in Commands, a \in ArgumentLists, o \in OptionSets :
       run_inprocess(c, a, o)

\* ---- what the script does to the process while it runs ----

ScriptStep ==
  /\ pc = "running"
  /\ steps < MaxScriptSteps
  /\ steps' = steps + 1
  /\ UNCHANGED << pc, metafunc, generated, params, executed, runner,
                  call, script, located, frame, cmd_args, outcome, result, exc, pre,
                  snap >>

\* where the script changes directory to
ScriptDirs == { "bin" }

\* os.chdir(d)
ScriptChdir(d) ==
  /\ ScriptStep
  /\ cwd' = d
  /\ UNCHANGED << environ, envc, logger, sys, streams >>

\* os.environ['X'] = '1'
ScriptSetEnv ==
  /\ ScriptStep
  /\ envc' = [envc EXCEPT ![environ].X = 1]
  /\ UNCHANGED << cwd, environ, logger, sys, streams >>

\* os.environ = {}
ScriptRebindEnviron ==
  /\ ScriptStep
  /\ environ' = "ESCR"
  /\ envc' = [envc EXCEPT !["ESCR"] = [hasPATH |-> FALSE, PATH |-> << >>,
                                        X |-> 0]]
  /\ UNCHANGED << cwd, logger, sys, streams >>

\* logging.basicConfig(level=logging.DEBUG): a handler on the root logger,
\* and its level set to 10
ScriptBasicConfig ==
  /\ ScriptStep
  /\ logger' = [logger EXCEPT !.level = 10,
                              !.handlers = @ \cup { "StreamHandler" }]
  /\ UNCHANGED << cwd, environ, envc, sys, streams >>

\* logging.getLogger().disabled = True
ScriptDisableLogger ==
  /\ ScriptStep
  /\ logger' = [logger EXCEPT !.disabled = TRUE]
  /\ UNCHANGED << cwd, environ, envc, sys, streams >>

\* print(..., file=sys.stdout) or file=sys.stderr
ScriptWrite(attr) ==
  /\ ScriptStep
  /\ streams' = Write(streams, sys[attr], << "T" >>)
  /\ UNCHANGED << cwd, environ, envc, logger, sys >>

\* sys.stdin = ..., sys.stdout = ..., sys.stderr = ..., sys.argv = [...]
ScriptRebindSys(attr) ==
  /\ ScriptStep
  /\ sys' = [sys EXCEPT ![attr] = IF attr = "argv" THEN << "script_argv" >>
                                   ELSE "script_stream"]
  /\ UNCHANGED << cwd, environ, envc, logger, streams >>

\* run() in in-process mode from the end of script() on: lines 246-274
finish_inprocess(o) ==
  /\ outcome' = o
  /\ steps' = 0
  /\ sys' = ExitPatches(o)
  /\ IF ~ Caught(o)
       THEN \* the exception leaves run_inprocess from inside the with
            /\ pc' = "raised"
            /\ exc' = "KeyboardInterrupt"
            /\ snap' = [snap EXCEPT !.stderr_at_end = sys.stderr]
            /\ UNCHANGED << cwd, environ, logger, streams, result >>
       ELSE LET st2 == AfterTry(o)
            IN  /\ logger' = _restore_logger(frame.logger_conf)
                /\ cwd' = frame.saved_dir
                /\ environ' = RestoreEnviron
                /\ snap' = [snap EXCEPT !.restores = @ + 1,
                                         !.stderr_at_end = sys.stderr]
                /\ result' = RunResult(ReturnCode(o), st2["mock_out"],
                                       st2["mock_err"])
                /\ streams' = PrintReport(st2, sys'.stdout,
                                          call.options.print_result = "yes")
                /\ pc' = "returned"
                /\ exc' = ""
  /\ UNCHANGED << metafunc, generated, params, executed, runner, envc,
                  call, script, located, frame, cmd_args, pre >>

ScriptFinish ==
  /\ pc = "running"
  /\ \E o \in Outcomes(script) : finish_inprocess(o)

(* ---------------- run_subprocess ---------------- *)

\* sys.executable or 'python'
PythonExe == "python"

\* the width of a POSIX exit status: the parent sees the low 8 bits
StatusBits == 256

\* what the child wrote to its stdout
ChildStdout == << "T" >>

\* the status subprocess.run reports for a Python child that ended with o:
\* sys.exit(None) and a module that runs to its end give 0, sys.exit(text)
\* and an uncaught exception give 1, sys.exit(n) gives n's low 8 bits, a
\* KeyboardInterrupt ends the child by SIGINT (-2); a console script's
\* wrapper passes what the entry point returns to sys.exit
ChildStatus(o) ==
  IF o.kind \in { "return", "exit" }
    THEN IF o.val = PyNone THEN 0
         ELSE IF IsStr(o.val) THEN 1
         ELSE o.val.i % StatusBits
  ELSE IF o.kind = "exception" THEN 1
  ELSE -2

\* what the child wrote to its stderr at its end
ChildStderr(o) ==
  IF o.kind \in { "return", "exit" } /\ IsStr(o.val)
    THEN << o.val.s, "\n" >>
  ELSE IF o.kind = "exception" THEN print_exception(<< "<script>" >>)
  ELSE << >>

\* how the program behind a command can end
ChildOutcomes(command) ==
  Outcomes(IF command \in EntryPoints THEN "console_script"
           ELSE "exec_script")

\* cmd_args of lines 286-289
SpawnArgs(command, arguments, script_path) ==
  IF _is_nonexecutable_python_file(script_path)
    THEN << PythonExe, command >> \o arguments
    ELSE << command >> \o arguments

\* run() in child-process mode: lines 144-150 and 279-298.  spawned is
\* whether subprocess.run could start the child at all (it raises OSError
\* otherwise), co how the child ended
run_subprocess(command, arguments, o, spawned, co) ==
  /\ LET script_path == _locate_script(command, o)
         \* options.pop('stdin') takes stdin out of the options
         opts == [o EXCEPT !.hasStdin = FALSE,
                           !.print_result =
                             IF PrintResult(o) THEN "yes" ELSE "no"]
         st1 == Announce(command, arguments, o)
     IN  /\ call' = [command |-> command, arguments |-> arguments,
                     options |-> opts]
         /\ pre' = [cwd |-> cwd, environ |-> environ, env |-> envc[environ],
                    logger |-> logger, sys |-> sys]
         /\ IF script_path = NoPath
              THEN /\ pc' = "raised"
                   /\ exc' = "FileNotFoundError: Cannot find"
                   /\ streams' = st1
                   /\ cmd_args' = << >>
                   /\ outcome' = NoOutcome
                   /\ result' = PyNone
              ELSE /\ cmd_args' = SpawnArgs(command, arguments, script_path)
                   /\ IF ~ spawned
                        THEN /\ pc' = "raised"
                             /\ exc' = "OSError: subprocess.run"
                             /\ streams' = st1
                             /\ outcome' = NoOutcome
                             /\ result' = PyNone
                        ELSE /\ pc' = "returned"
                             /\ exc' = ""
                             /\ outcome' = co
                             /\ result' = RunResult(PyInt(ChildStatus(co)),
                                                    ChildStdout,
                                                    ChildStderr(co))
                             /\ streams' = PrintReport(st1, sys.stdout,
                                                       PrintResult(o))
  /\ script' = ""
  /\ located' = _locate_script(command, o)
  /\ steps' = 0
  /\ snap' = NoSnap
  /\ frame' = NoFrame
  /\ UNCHANGED << metafunc, generated, params, executed, runner, cwd,
                  environ, envc, logger, sys >>

RunSubprocess ==
  /\ pc = "idle"
  /\ runner.launch_mode = "subprocess"
  /\ \E c \in Commands, a \in ArgumentLists, o \in OptionSets,
        spawned \in BOOLEAN :
       \E co \in ChildOutcomes(c) : run_subprocess(c, a, o, spawned, co)

(* ---------------- the session ---------------- *)

\* the root logger under pytest before the run: level WARNING
InitLogger ==
  [level |-> 30, handlers |-> { "LogCaptureHandler" },
   disabled |-> FALSE]

EmptyEnv == [hasPATH |-> FALSE, PATH |-> << >>, X |-> 0]

StreamIds == { "real_out", "real_err", "mock_out", "mock_err" }

NoCall ==
  [command |-> "", arguments |-> << >>,
   options |-> [hasEnv |-> FALSE, env |-> ProcessEnv, hasCwd |-> FALSE,
                cwd |-> "", hasStdin |-> FALSE, print_result |-> "no"]]

\* the test function is over: its locals (the runner, the result, the
\* run's frame) are gone, pytest drops what it captured of the test's output
\* and goes on to the next parameter
TestDone ==
  /\ pc \in { "returned", "raised" }
  /\ pc' = "collected"
  /\ runner' = [launch_mode |-> "", print_result |-> TRUE]
  /\ streams' = [id \in StreamIds |-> << >>]
  /\ call' = NoCall
  /\ script' = ""
  /\ located' = NoPath
  /\ frame' = NoFrame
  /\ cmd_args' = << >>
  /\ steps' = 0
  /\ outcome' = NoOutcome
  /\ result' = PyNone
  /\ exc' = ""
  /\ pre' = [cwd |-> cwd, environ |-> environ, env |-> envc[environ],
             logger |-> logger, sys |-> sys]
  /\ snap' = NoSnap
  /\ UNCHANGED << metafunc, generated, params, executed, cwd,
                  environ, envc, logger, sys >>

Init ==
  /\ pc = "collect"
  /\ metafunc = PyNone
  /\ generated = << >>
  /\ params = << >>
  /\ executed = << >>
  /\ runner = [launch_mode |-> "", print_result |-> TRUE]
  /\ cwd = "home"
  /\ environ = "E0"
  /\ envc = [m \in { "E0", "EOPT", "ESCR" } |->
               IF m = "E0" THEN ProcessEnv ELSE EmptyEnv]
  /\ logger = InitLogger
  /\ sys = [stdin |-> "real_in", stdout |-> "real_out",
            stderr |-> "real_err", argv |-> << "pytest" >>]
  /\ streams = [id \in StreamIds |-> << >>]
  /\ call = NoCall
  /\ script = ""
  /\ located = NoPath
  /\ frame = NoFrame
  /\ cmd_args = << >>
  /\ steps = 0
  /\ outcome = NoOutcome
  /\ result = PyNone
  /\ exc = ""
  /\ pre = [cwd |-> cwd, environ |-> environ, env |-> envc[environ],
            logger |-> logger, sys |-> sys]
  /\ snap = NoSnap

Next ==
  \/ \E u \in BOOLEAN, m \in MarkerArgs, op \in OptionArgs, ini \in IniArgs :
       pytest_generate_tests(u, m, op, ini)
  \/ \E hide \in BOOLEAN : script_runner(hide)
  \/ RunInprocess
  \/ \E d \in ScriptDirs : ScriptChdir(d)
  \/ ScriptSetEnv
  \/ ScriptRebindEnviron
  \/ ScriptBasicConfig
  \/ ScriptDisableLogger
  \/ \E attr \in { "stdout", "stderr" } : ScriptWrite(attr)
  \/ \E attr \in { "stdin", "stdout", "stderr", "argv" } : ScriptRebindSys(attr)
  \/ ScriptFinish
  \/ RunSubprocess
  \/ TestDone

Spec == Init /\ [][Next]_vars

(* ---------------- properties ---------------- *)

InprocessRun == runner.launch_mode = "inprocess"

SubprocessRun == runner.launch_mode = "subprocess"

\* the run is over and gave the caller a RunResult
Returned == pc = "returned"

\* the last n items of a sequence
LastN(seq, n) == SubSeq(seq, Len(seq) - n + 1, Len(seq))

\* C1 as claimed: after an in-process run that returned, the working
\* directory, the environment mapping and the root logging configuration are
\* what they were just before the call, with or without env and cwd and
\* whatever the script did
C1_AllRestored ==
  (Returned /\ InprocessRun) =>
    /\ cwd = pre.cwd
    /\ logger = pre.logger
    /\ environ = pre.environ
    /\ envc[environ] = pre.env

\* C1 as amended: after an in-process run that returned (normal return,
\* requested exit or caught error), the working directory and the root
\* logging configuration are what they were just before the call, and so is
\* the environment mapping when the env option was given; without env the
\* runner takes no snapshot of the environment
C1_Restored ==
  (Returned /\ InprocessRun) =>
    /\ cwd = pre.cwd
    /\ logger = pre.logger
    /\ call.options.hasEnv =>
         (environ = pre.environ /\ envc[environ] = pre.env)

\* C1, witness:
\* a run with env and cwd whose script changed the substituted environment
\* and then raised an error, and the process state is back
C1_Witness ==
  /\ Returned /\ InprocessRun
  /\ outcome.kind = "exception"
  /\ call.options.hasEnv /\ call.options.hasCwd
  /\ envc["EOPT"].X = 1
  /\ cwd = "home" /\ environ = "E0" /\ logger = InitLogger

\* C2: the return code of an in-process run follows from how the callable
\* ended (None -> 0, a returned value as it is, exit text -> 1 and the text
\* plus newline at the end of the captured stderr, exit None -> 0, exit n ->
\* n, any other error -> 1), and success is (return code = 0)
C2_ReturnCode ==
  (Returned /\ InprocessRun) =>
    /\ (outcome.kind = "return" /\ outcome.val = PyNone)
         => result.returncode = PyInt(0)
    /\ (outcome.kind = "return" /\ outcome.val # PyNone)
         => result.returncode = outcome.val
    /\ (outcome.kind = "exit" /\ IsStr(outcome.val))
         => /\ result.returncode = PyInt(1)
            /\ Len(result.stderr) >= 2
            /\ LastN(result.stderr, 2) = << outcome.val.s, "\n" >>
    /\ (outcome.kind = "exit" /\ outcome.val = PyNone)
         => result.returncode = PyInt(0)
    /\ (outcome.kind = "exit" /\ IsInt(outcome.val))
         => result.returncode = outcome.val
    /\ outcome.kind = "exception" => result.returncode = PyInt(1)
    /\ result.success <=> (result.returncode = PyInt(0))

\* C2, witness:
\* a script that wrote to stderr and then asked to exit with a text
C2_Witness ==
  /\ Returned /\ InprocessRun
  /\ outcome = [kind |-> "exit", val |-> PyStr("msg")]
  /\ result.stderr = << "T", "msg", "\n" >>
  /\ result.returncode = PyInt(1)
  /\ ~ result.success

\* C3 as claimed: a script that exits with an integer N gives returncode N in
\* both modes, for every integer N
C3_AnyInteger ==
  (Returned /\ outcome.kind = "exit" /\ IsInt(outcome.val)) =>
    result.returncode = outcome.val

\* C3 as amended: a script that exits with an integer N in 0..255 gives
\* returncode N in both modes; in-process every integer N is returned as it
\* is, while a child's status is N modulo 256
C3_ExitStatusRange ==
  (Returned /\ outcome.kind = "exit" /\ IsInt(outcome.val)) =>
    /\ outcome.val.i \in 0..255 => result.returncode = outcome.val
    /\ InprocessRun => result.returncode = outcome.val
    /\ SubprocessRun =>
         /\ result.returncode.i \in 0..255
         /\ (result.returncode.i - outcome.val.i) % 256 = 0

\* C3, witness:
\* the second run of a test in mode both: the child exited with 3
C3_Witness ==
  /\ Returned /\ SubprocessRun
  /\ executed = << "inprocess", "subprocess" >>
  /\ outcome = [kind |-> "exit", val |-> PyInt(3)]
  /\ result.returncode = PyInt(3)

\* C4 as claimed: the only exception that leaves run() is the locator's
\* target-not-found error
C4_OnlyNotFound ==
  pc = "raised" => exc = "FileNotFoundError: Cannot find"

\* C4 as amended: the exceptions that leave an in-process run() are the
\* locator's not-found error and the failure to change into the cwd option,
\* both before the script runs, and an exception of the script that is
\* neither a termination request nor derived from Exception (such as
\* KeyboardInterrupt); a normal return, a termination request and any error
\* derived from Exception give a RunResult and are not raised to the caller
C4_Propagation ==
  (InprocessRun /\ pc \in { "returned", "raised" }) =>
    /\ pc = "raised" =>
         exc \in { "FileNotFoundError: Cannot find",
                   "FileNotFoundError: chdir", "KeyboardInterrupt" }
    /\ exc \in { "FileNotFoundError: Cannot find",
                 "FileNotFoundError: chdir" } => outcome = NoOutcome
    /\ exc = "KeyboardInterrupt" <=> outcome.kind = "interrupt"
    /\ outcome.kind \in { "return", "exit", "exception" } =>
         (Returned /\ exc = "" /\ result # PyNone)

\* C4, witness:
\* a script raised an error and the caller got a RunResult
C4_Witness ==
  /\ Returned /\ InprocessRun
  /\ outcome.kind = "exception"
  /\ result # PyNone /\ exc = ""

\* C5: in child-process mode the interpreter is put before the argument
\* vector exactly when the resolved file has no execute bit for the owner
\* and its name ends in .py; otherwise the vector is [command, *arguments]
C5_PrependIffOwnerNonExecPy ==
  (SubprocessRun /\ pc \in { "returned", "raised" } /\ located # NoPath) =>
    IF ~ OwnerExec(st_mode(located)) /\ Suffix(located[2]) = ".py"
      THEN cmd_args = << PythonExe, call.command >> \o call.arguments
      ELSE cmd_args = << call.command >> \o call.arguments

\* the mode a test resolves to as C6 states it: the marker's value if the
\* marker is set, else the option's, else the ini file's, else inprocess
IsSet(v) == v \notin { NoMarker, PyNone, PyStr("") }

C6_Mode ==
  IF IsSet(PyStrOf(metafunc.marker)) THEN PyStrOf(metafunc.marker)
  ELSE IF IsSet(metafunc.option) THEN metafunc.option
  ELSE IF IsSet(metafunc.ini) THEN metafunc.ini
  ELSE PyStr("inprocess")

\* C6: the launch mode is resolved marker first, then option, then ini file,
\* then inprocess; inprocess and subprocess run the test once in that mode,
\* both runs it twice, in-process and then as a child process, anything else
\* is rejected; and the test is set up once per generated parameter
C6_ModeResolution ==
  /\ (metafunc # PyNone /\ metafunc.uses_fixture) =>
       /\ C6_Mode = PyStr("inprocess") =>
            (pc = "collected" /\ generated = << "inprocess" >>)
       /\ C6_Mode = PyStr("subprocess") =>
            (pc = "collected" /\ generated = << "subprocess" >>)
       /\ C6_Mode = PyStr("both") =>
            (pc = "collected" /\ generated = << "inprocess", "subprocess" >>)
       /\ C6_Mode \notin { PyStr("inprocess"), PyStr("subprocess"),
                           PyStr("both") } =>
            (pc = "collect_error" /\ generated = << >>)
  /\ pc # "collect" => executed \o params = generated
  /\ Len(generated) <= 2

\* C6, witness:
\* the option says both and wins over the ini file; no marker
C6_Witness ==
  /\ pc = "collected"
  /\ metafunc # PyNone
  /\ metafunc.uses_fixture
  /\ metafunc.marker = NoMarker
  /\ metafunc.option = PyStr("both")
  /\ metafunc.ini = PyStr("subprocess")
  /\ generated = << "inprocess", "subprocess" >>

\* the locator was called in this run
LocatorCalled ==
  /\ pc \in { "running", "returned", "raised" }
  /\ ~ (InprocessRun /\ call.command \in EntryPoints)

\* the search path C7 names: PATH of the env option when given, else the
\* process's PATH at the call
C7_SearchPath ==
  IF call.options.hasEnv /\ call.options.env.hasPATH
    THEN call.options.env.PATH
  ELSE IF pre.env.hasPATH THEN pre.env.PATH
  ELSE DefPath

\* the directories of the search path holding an executable of that name
C7_OnPath ==
  { i \in 1..Len(C7_SearchPath) :
      \E f \in FS : /\ f.dir = C7_SearchPath[i]
                    /\ f.name = call.command
                    /\ OwnerExec(f.mode) }

\* the working directory C7 names: the cwd option, else the process's
C7_Cwd == IF call.options.hasCwd THEN call.options.cwd ELSE pre.cwd

C7_InCwd == \E f \in FS : f.dir = C7_Cwd /\ f.name = call.command

\* C7: the locator returns the executable found on the search path if there
\* is one, else the same-named file under the cwd option (the current
\* directory without one) if it exists, and raises not-found exactly when
\* there is neither
C7_Locator ==
  LocatorCalled =>
    /\ C7_OnPath # {} =>
         \E i \in C7_OnPath :
           /\ \A j \in C7_OnPath : i <= j
           /\ located = << C7_SearchPath[i], call.command >>
    /\ (C7_OnPath = {} /\ C7_InCwd) => located = << C7_Cwd, call.command >>
    /\ (exc = "FileNotFoundError: Cannot find")
         <=> (C7_OnPath = {} /\ ~ C7_InCwd)
    /\ (exc = "FileNotFoundError: Cannot find") <=> located = NoPath

\* C7, witness:
\* tool is on the process's PATH and under work, but the env option's PATH
\* holds no executable tool: the file under the cwd option is returned
C7_Witness ==
  /\ LocatorCalled
  /\ call.command = "tool"
  /\ call.options.hasEnv /\ call.options.env.hasPATH
  /\ call.options.hasCwd
  /\ located = << "work", "tool" >>

\* the traceback as print_exception writes it without the runner's frame
C8_Trace == print_exception(<< script, "<script>" >>)

HasSuffix(seq, suffix) ==
  /\ Len(seq) >= Len(suffix)
  /\ LastN(seq, Len(suffix)) = suffix

C9_Constructed ==
  [stdin  |-> IF call.options.hasStdin THEN "user_stdin" ELSE "mock_in",
   stdout |-> "mock_out",
   stderr |-> "mock_err",
   argv   |-> << call.command >> \o call.arguments]

\* C9: sys.stdin, sys.stdout, sys.stderr and sys.argv are the constructed
\* ones when the callable is entered, and are the objects of before the
\* substitution whenever the callable is not being invoked, on every way out
C9_ScopedSubstitution ==
  /\ (pc = "running" /\ steps = 0) => sys = C9_Constructed
  /\ pc # "running" => sys = pre.sys
  /\ pc # "running" =>
       /\ sys.stdin = "real_in" /\ sys.stdout = "real_out"
       /\ sys.stderr = "real_err" /\ sys.argv = << "pytest" >>

\* C9, witness:
\* the script rebound sys.stderr and was interrupted: the error went to the
\* caller and the four are back
C9_Witness ==
  /\ pc = "raised" /\ InprocessRun
  /\ exc = "KeyboardInterrupt"
  /\ snap.stderr_at_end = "script_stream"
  /\ sys = pre.sys

\* C10: once the snapshot is taken, it is restored exactly once on every way
\* out of run_inprocess, an error that goes to the caller included
C10_RestoredOnEveryExit ==
  (pc \in { "returned", "raised" } /\ snap.taken) => snap.restores = 1

====
